---- MODULE Spec2Model ----
(***************************************************************************)
(* gitid: profile store, SSH config synchroniser and profile detection.    *)
(*                                                                         *)
(* A Rust String is modelled as a sequence of fragments.  A fragment is a  *)
(* TLA+ string standing for a run of bytes that is never split: "git",     *)
(* "hub", "lab", ".com", "-", "\n", a profile key, a fixed piece of a Host *)
(* stanza.  No fragment occurs inside another one or across the border of  *)
(* two others, so equality, prefix, substring search and slicing on        *)
(* fragment sequences agree with the same operations on the bytes.         *)
(* Offsets (usize) count fragments and start at 0, as in Rust.             *)
(* Option<T> is a sequence of length at most one: None is << >>.           *)
(***************************************************************************)
EXTENDS Integers, Sequences, FiniteSets, TLC

\* ----------------------------------------------------------------- bounds

\* Number of pieces (text, newline, sentinel) of an initial ~/.ssh/config.
MaxPieces == 3
\* Sentinel occurrences a modelled ~/.ssh/config may hold after a sync.
MaxSentinels == 2
\* Remotes of the modelled repository.
MaxRemotes == 2
\* pieces a remote URL is put together from
MaxUrlPieces == 3
\* the fragments a failing write may have written to ~/.ssh/config: 0..MaxWritten
MaxWritten == 2

\* ------------------------------------------------------- Option and str

None == << >>
Some(x) == << x >>
IsSome(o) == o # << >>
Unwrap(o) == o[1]

\* s[i..] starts with pat, i a 0-based offset   (str::starts_with on a slice)
StartsWithAt(s, pat, i) ==
    /\ i + Len(pat) <= Len(s)
    /\ \A k \in 1..Len(pat) : s[i + k] = pat[k]

StartsWith(s, pat) == StartsWithAt(s, pat, 0)

\* str::find: offset of the first occurrence, or None
Find(s, pat) ==
    IF \E i \in 0..Len(s) : StartsWithAt(s, pat, i)
    THEN Some(CHOOSE i \in 0..Len(s) :
                 /\ StartsWithAt(s, pat, i)
                 /\ \A j \in 0..(i - 1) : ~StartsWithAt(s, pat, j))
    ELSE None

\* str::contains
Contains(s, pat) == IsSome(Find(s, pat))

\* s[..i] and s[i..]
SliceTo(s, i) == SubSeq(s, 1, i)
SliceFrom(s, i) == SubSeq(s, i + 1, Len(s))

NL == "\n"
\* str::ends_with('\n')
EndsWithNewline(s) == Len(s) > 0 /\ s[Len(s)] = NL

Whitespace == {" ", NL}
\* str::trim().is_empty()
TrimIsEmpty(s) == \A k \in 1..Len(s) : s[k] \in Whitespace

\* str::trim()
RECURSIVE TrimStart(_)
TrimStart(s) ==
    IF s # << >> /\ Head(s) \in Whitespace THEN TrimStart(Tail(s)) ELSE s
RECURSIVE TrimEnd(_)
TrimEnd(s) ==
    IF s # << >> /\ s[Len(s)] \in Whitespace THEN TrimEnd(SubSeq(s, 1, Len(s) - 1)) ELSE s
Trim(s) == TrimEnd(TrimStart(s))

\* -------------------------------------------------------------- profile

Github == "Github"
Gitlab == "Gitlab"
Both == "Both"

\* s.to_lowercase() of the platform strings a user may type
ToLowercase(s) ==
    CASE s = "GITHUB" -> "github"
      [] s = "GitLab" -> "gitlab"
      [] s = "Both" -> "both"
      [] OTHER -> s

\* Platform::from_str: Ok(platform) as Some, Err(InvalidPlatform) as None
PlatformFromStr(s) ==
    LET l == ToLowercase(s)
    IN  CASE l = "github" -> Some(Github)
          [] l = "gitlab" -> Some(Gitlab)
          [] l = "both" -> Some(Both)
          [] OTHER -> None

ProfileNew(name, email, platform, ssh_key, gpg_key, host) ==
    [name |-> name, email |-> email, platform |-> platform,
     ssh_key |-> ssh_key, gpg_key |-> gpg_key, host |-> host]

\* Profile::validate: "Ok" or the ProfileError variant
Validate(profile) ==
    IF TrimIsEmpty(profile.name) THEN "EmptyName"
    ELSE IF TrimIsEmpty(profile.email) THEN "EmptyEmail"
    ELSE IF TrimIsEmpty(profile.ssh_key) THEN "EmptySshKey"
    ELSE "Ok"

GITHUB == <<"git", "hub">>
GITLAB == <<"git", "lab">>
GIT == <<"git">>
GITHUB_COM == <<"git", "hub", ".com">>
GITLAB_COM == <<"git", "lab", ".com">>

\* default_host sending a Both profile without a custom host to gitlab.com
DefaultHostBothGitlab(profile) ==
    IF IsSome(profile.host) THEN Unwrap(profile.host)
    ELSE IF profile.platform = Github THEN GITHUB_COM
    ELSE GITLAB_COM

DefaultHost(profile) ==
    IF IsSome(profile.host) THEN Unwrap(profile.host)
    ELSE IF profile.platform \in {Github, Both} THEN GITHUB_COM
    ELSE GITLAB_COM

\* ssh_host_alias giving a Both profile the prefix of a GitHub profile
SshHostAliasBothGithub(profile, profile_name) ==
    LET platform_prefix == IF profile.platform = Gitlab THEN GITLAB ELSE GITHUB
    IN  platform_prefix \o <<"-">> \o profile_name

\* ssh_host_alias giving a profile with a custom host the neutral prefix
SshHostAliasByHost(profile, profile_name) ==
    LET prefix == IF IsSome(profile.host) THEN GIT
                  ELSE CASE profile.platform = Github -> GITHUB
                         [] profile.platform = Gitlab -> GITLAB
                         [] profile.platform = Both -> GIT
    IN  prefix \o <<"-">> \o profile_name

SshHostAlias(profile, profile_name) ==
    LET platform_prefix ==
            CASE profile.platform = Github -> GITHUB
              [] profile.platform = Gitlab -> GITLAB
              [] profile.platform = Both -> GIT
    IN  platform_prefix \o <<"-">> \o profile_name

\* format!("github-{}", profile_name), format!("gitlab-{}", profile_name)
GithubAlias(profile_name) == GITHUB \o <<"-">> \o profile_name
GitlabAlias(profile_name) == GITLAB \o <<"-">> \o profile_name

\* --------------------------------------------------------------- config

\* Config::default()
ConfigDefault == [default_profile |-> None, profiles |-> << >>]

\* Config.profiles is a HashMap<String, Profile>: a function from its keys.
HasProfile(config, name) == name \in DOMAIN config.profiles
GetProfile(config, name) ==
    IF name \in DOMAIN config.profiles THEN Some(config.profiles[name]) ELSE None

MapInsert(m, k, v) == [x \in DOMAIN m \cup {k} |-> IF x = k THEN v ELSE m[x]]
MapRemove(m, k) == [x \in DOMAIN m \ {k} |-> m[x]]

\* Config::add_profile: [err, config]; the store is untouched on Err
AddProfile(config, name, profile) ==
    LET v == Validate(profile)
    IN  IF v # "Ok" THEN [err |-> v, config |-> config]
        ELSE [err |-> "Ok",
              config |-> [config EXCEPT !.profiles = MapInsert(@, name, profile)]]

\* Config::remove_profile
RemoveProfile(config, name) ==
    LET cleared == IF config.default_profile = Some(name)
                   THEN [config EXCEPT !.default_profile = None]
                   ELSE config
    IN  [cleared EXCEPT !.profiles = MapRemove(@, name)]

\* The orders in which iterating a HashMap with these keys may yield them.
KeyOrders(m) ==
    LET n == Cardinality(DOMAIN m)
    IN  { o \in [1..n -> DOMAIN m] : \A i, j \in 1..n : i # j => o[i] # o[j] }

\* Byte order of the fragments profile keys are made of
\* ('-' < 'h' < 'w', "ho" < "hu").
FragmentsByByte == <<"-", "home", "hub", "work">>
FragRank(f) == CHOOSE i \in 1..Len(FragmentsByByte) : FragmentsByByte[i] = f

\* a < b for String: lexicographic on bytes
StrLess(a, b) ==
    \E k \in 1..Len(b) :
        /\ k <= Len(a) + 1
        /\ \A i \in 1..(k - 1) : a[i] = b[i]
        /\ \/ k = Len(a) + 1
           \/ FragRank(a[k]) < FragRank(b[k])

RECURSIVE InsertSorted(_, _)
InsertSorted(sorted, x) ==
    IF sorted = << >> THEN <<x>>
    ELSE IF StrLess(x, Head(sorted)) THEN <<x>> \o sorted
    ELSE <<Head(sorted)>> \o InsertSorted(Tail(sorted), x)

\* SortStrings leaving the keys in the order the map yields them
SortStringsUnsorted(names) == names

RECURSIVE SortStrings(_)
\* Vec<&String>::sort()
SortStrings(names) ==
    IF names = << >> THEN << >>
    ELSE InsertSorted(SortStrings(SubSeq(names, 1, Len(names) - 1)), names[Len(names)])

\* ------------------------------------------------------------------ ssh

MANAGED_START == <<"# === GITID MANAGED ", "START ===">>
MANAGED_END == <<"# === GITID MANAGED ", "END ===">>

\* One "Host" stanza: the format! template of generate_host_entry
HostStanza(alias, hostname, ssh_key) ==
    <<"Host ">> \o alias \o <<NL, "  HostName ">> \o hostname
        \o <<NL, "  User git", NL, "  IdentityFile ">> \o ssh_key
        \o <<NL, "  IdentitiesOnly yes", NL>>

\* GenerateHostEntry pointing the extra stanzas of a Both profile at its default host
GenerateHostEntrySameHost(profile_name, profile) ==
    LET hostname == DefaultHost(profile)
        ssh_key == profile.ssh_key
        entry == HostStanza(SshHostAlias(profile, profile_name), hostname, ssh_key)
    IN  IF profile.platform = Both
        THEN entry
                \o <<NL>> \o HostStanza(GithubAlias(profile_name), hostname, ssh_key)
                \o <<NL>> \o HostStanza(GitlabAlias(profile_name), hostname, ssh_key)
        ELSE entry

GenerateHostEntry(profile_name, profile) ==
    LET alias == SshHostAlias(profile, profile_name)
        hostname == DefaultHost(profile)
        ssh_key == profile.ssh_key
        entry == HostStanza(alias, hostname, ssh_key)
    IN  IF profile.platform = Both
        THEN entry
                \o <<NL>> \o HostStanza(GithubAlias(profile_name), GITHUB_COM, ssh_key)
                \o <<NL>> \o HostStanza(GitlabAlias(profile_name), GITLAB_COM, ssh_key)
        ELSE entry

RECURSIVE PushEntries(_, _, _)
\* the for loop of generate_managed_block over the sorted keys
PushEntries(block, profile_names, config) ==
    IF profile_names = << >> THEN block
    ELSE LET name == Head(profile_names)
             pushed == IF IsSome(GetProfile(config, name))
                       THEN block \o GenerateHostEntry(name, Unwrap(GetProfile(config, name)))
                       ELSE block
         IN  PushEntries(pushed, Tail(profile_names), config)

\* generate_managed_block; keys is the order config.profiles.keys() yields
GenerateManagedBlock(config, keys) ==
    LET profile_names == SortStrings(keys)
    IN  PushEntries(MANAGED_START \o <<NL>>, profile_names, config) \o MANAGED_END

\* read_ssh_config: an absent file reads as the empty string
ReadSshConfig(file) == IF IsSome(file) THEN Unwrap(file) ELSE << >>

\* ProfileCount counting Host stanzas instead of profiles
ProfileCountStanzas(config) ==
    Cardinality(DOMAIN config.profiles)
        + 2 * Cardinality({ n \in DOMAIN config.profiles : config.profiles[n].platform = Both })

\* config.profiles.len()
ProfileCount(config) == Cardinality(DOMAIN config.profiles)

\* the branch of sync_ssh_config that replaces an existing managed block
ReplaceBlock(current_content, new_block, start_idx, end) ==
    LET end_idx == end + Len(MANAGED_END)
        kept == IF end_idx < Len(current_content)
                THEN SliceFrom(current_content, end_idx) ELSE << >>
    IN  SliceTo(current_content, start_idx) \o new_block \o kept

\* AppendBlock pushing both newlines whenever the file is not empty
AppendBlockTwoNewlines(current_content, new_block) ==
    LET separated == IF current_content # << >>
                     THEN current_content \o <<NL, NL>> ELSE current_content
    IN  separated \o new_block \o <<NL>>

\* the branch of sync_ssh_config that appends a new managed block
AppendBlock(current_content, new_block) ==
    LET terminated == IF current_content # << >> /\ ~EndsWithNewline(current_content)
                      THEN current_content \o <<NL>> ELSE current_content
        separated == IF terminated # << >> THEN terminated \o <<NL>> ELSE terminated
    IN  separated \o new_block \o <<NL>>

\* sync_ssh_config without its file reads and writes:
\* [content |-> what it writes, ret |-> <<profile_count, updated>>]
SyncSshConfig(current_content, config, keys) ==
    LET new_block == GenerateManagedBlock(config, keys)
        profile_count == ProfileCount(config)
        start == Find(current_content, MANAGED_START)
        end == Find(current_content, MANAGED_END)
    IN  IF IsSome(start) /\ IsSome(end)
        THEN [content |-> ReplaceBlock(current_content, new_block, Unwrap(start), Unwrap(end)),
              ret |-> <<profile_count, TRUE>>]
        ELSE [content |-> AppendBlock(current_content, new_block),
              ret |-> <<profile_count, FALSE>>]

\* The filesystem as one sync finds it: may ~/.ssh/config be read, does
\* ~/.ssh exist when the file does not, may the file be opened for writing,
\* and after how many fragments the write fails or the process is killed
\* (None: the write completes).
NoFault == [readable |-> TRUE, dir |-> TRUE, writable |-> TRUE, written |-> None]
Faults ==
    { NoFault,
      [NoFault EXCEPT !.readable = FALSE],
      [NoFault EXCEPT !.dir = FALSE],
      [NoFault EXCEPT !.writable = FALSE] }
    \cup { [NoFault EXCEPT !.written = Some(k)] : k \in 0..MaxWritten }

\* write_ssh_config without its fs::create_dir_all
CreateDirAllSkipped(dir) == dir

\* fs::create_dir_all(parent): does ~/.ssh exist afterwards, given whether it
\* did before? It creates what is missing.
CreateDirAll(dir) == TRUE

\* write_ssh_config: [err, file]; fs::write opens the file truncating it and
\* then writes the content, so a write that stops leaves what it wrote
WriteSshConfig(file, content, fs) ==
    LET dir == CreateDirAll(IsSome(file) \/ fs.dir)
    IN  IF ~dir \/ ~fs.writable
        THEN [err |-> "WriteFailed", file |-> file]
        ELSE IF IsSome(fs.written) /\ Unwrap(fs.written) < Len(content)
        THEN [err |-> "WriteFailed", file |-> Some(SliceTo(content, Unwrap(fs.written)))]
        ELSE [err |-> "Ok", file |-> Some(content)]

\* sync_ssh_config with its read and its write: the one outcome
\* [err, file, ret] it has on this filesystem, as a set
SyncFile(file, config, keys, fs) ==
    IF IsSome(file) /\ ~fs.readable
    THEN { [err |-> "ReadFailed", file |-> file, ret |-> None] }
    ELSE UNION {
            { [err |-> w.err, file |-> w.file,
               ret |-> IF w.err = "Ok" THEN Some(sync.ret) ELSE None] :
                 w \in {WriteSshConfig(file, sync.content, fs)} } :
              sync \in {SyncSshConfig(ReadSshConfig(file), config, keys)} }

\* ------------------------------------------------------------------ git

Local == "Local"
Global == "Global"

\* One scope of the git configuration: key -> Option<value>
GitKeys == {"user.name", "user.email", "user.signingkey", "commit.gpgsign"}
GitUnset == [k \in GitKeys |-> None]

\* git config <scope> --get key: the value printed, trimmed, when git exits with 0
GetConfig(cfg, key) == IF IsSome(cfg[key]) THEN Some(Trim(Unwrap(cfg[key]))) ELSE None
\* git config <scope> key value
SetConfig(cfg, key, value) == [cfg EXCEPT ![key] = Some(value)]
\* git config <scope> --unset key; the exit status is ignored
UnsetConfig(cfg, key) == [cfg EXCEPT ![key] = None]

\* apply_profile leaving the signing settings alone when no key is given
ApplyProfileKeepsSigning(cfg, name, email, gpg_key) ==
    LET named == SetConfig(SetConfig(cfg, "user.name", name), "user.email", email)
    IN  IF IsSome(gpg_key)
        THEN SetConfig(SetConfig(named, "user.signingkey", Unwrap(gpg_key)),
                       "commit.gpgsign", <<"true">>)
        ELSE named

\* apply_profile on the configuration of one scope
ApplyProfile(cfg, name, email, gpg_key) ==
    LET named == SetConfig(SetConfig(cfg, "user.name", name), "user.email", email)
    IN  IF IsSome(gpg_key)
        THEN SetConfig(SetConfig(named, "user.signingkey", Unwrap(gpg_key)),
                       "commit.gpgsign", <<"true">>)
        ELSE UnsetConfig(UnsetConfig(named, "user.signingkey"), "commit.gpgsign")

\* unset_config reporting the exit status of git, 5 for a key that is absent
UnsetConfigChecksStatus(cfg, key) ==
    IF IsSome(cfg[key]) THEN "Ok" ELSE "GitConfigFailed"

\* the Result of unset_config: the exit status of git is dropped
UnsetConfigResult(cfg, key) == "Ok"

\* the Result of apply_profile on the configuration of one scope: the first
\* error of its calls; set_config is taken to succeed
ApplyProfileResult(cfg, gpg_key) ==
    IF IsSome(gpg_key) THEN "Ok"
    ELSE IF UnsetConfigResult(cfg, "user.signingkey") # "Ok"
         THEN UnsetConfigResult(cfg, "user.signingkey")
         ELSE UnsetConfigResult(cfg, "commit.gpgsign")

\* get_current_user
GetCurrentUser(cfg) == <<GetConfig(cfg, "user.name"), GetConfig(cfg, "user.email")>>

GIT_AT == <<"git", "@">>
HTTPS == <<"http", "s", "://">>
HTTP == <<"http", "://">>

\* RemoteUrl::parse taking an http(s) URL only when a path follows the host
RemoteUrlParseNeedsPath(url) ==
    IF StartsWith(url, GIT_AT)
    THEN LET without_prefix == SliceFrom(url, Len(GIT_AT))
             colon == Find(without_prefix, <<":">>)
         IN  IF IsSome(colon)
             THEN Some([host |-> SliceTo(without_prefix, Unwrap(colon))])
             ELSE None
    ELSE IF StartsWith(url, HTTPS) \/ StartsWith(url, HTTP)
    THEN LET without_scheme == IF StartsWith(url, HTTPS)
                               THEN SliceFrom(url, Len(HTTPS))
                               ELSE SliceFrom(url, Len(HTTP))
             slash == Find(without_scheme, <<"/">>)
         IN  IF IsSome(slash)
             THEN Some([host |-> SliceTo(without_scheme, Unwrap(slash))])
             ELSE None
    ELSE None

\* RemoteUrl::parse: Some([host |-> ...]) or None
RemoteUrlParse(url) ==
    IF StartsWith(url, GIT_AT)
    THEN LET without_prefix == SliceFrom(url, Len(GIT_AT))
             colon == Find(without_prefix, <<":">>)
         IN  IF IsSome(colon)
             THEN Some([host |-> SliceTo(without_prefix, Unwrap(colon))])
             ELSE None
    ELSE IF StartsWith(url, HTTPS) \/ StartsWith(url, HTTP)
    THEN LET without_scheme == IF StartsWith(url, HTTPS)
                               THEN SliceFrom(url, Len(HTTPS))
                               ELSE SliceFrom(url, Len(HTTP))
             slash == Find(without_scheme, <<"/">>)
         IN  IF IsSome(slash)
             THEN Some([host |-> SliceTo(without_scheme, Unwrap(slash))])
             ELSE Some([host |-> without_scheme])
    ELSE None

\* --------------------------------------------------------------- detect

\* ScoreProfile with the rules as alternatives: the first that matches decides
ScoreProfileFirstRule(remote_url, profile_name, profile) ==
    LET remote_host == remote_url.host
        is_github == Contains(remote_host, GITHUB)
        is_gitlab == Contains(remote_host, GITLAB)
    IN  IF remote_host = SshHostAlias(profile, profile_name) THEN 100
        ELSE IF /\ profile.platform = Both
                /\ \/ remote_host = GithubAlias(profile_name)
                   \/ remote_host = GitlabAlias(profile_name)
        THEN 100
        ELSE IF remote_host = DefaultHost(profile) THEN 50
        ELSE IF /\ IsSome(profile.host)
                /\ Contains(remote_host, Unwrap(profile.host))
        THEN 80
        ELSE IF profile.platform = Github /\ is_github THEN 20
        ELSE IF profile.platform = Gitlab /\ is_gitlab THEN 20
        ELSE IF profile.platform = Both /\ (is_github \/ is_gitlab) THEN 15
        ELSE 0

\* score_profile (u32; the sum stays far below 2^32)
ScoreProfile(remote_url, profile_name, profile) ==
    LET profile_host == DefaultHost(profile)
        remote_host == remote_url.host
        ssh_alias == SshHostAlias(profile, profile_name)
        s1 == IF remote_host = ssh_alias THEN 100 ELSE 0
        s2 == IF /\ profile.platform = Both
                 /\ \/ remote_host = GithubAlias(profile_name)
                    \/ remote_host = GitlabAlias(profile_name)
              THEN s1 + 100 ELSE s1
        s3 == IF remote_host = profile_host THEN s2 + 50 ELSE s2
        is_github == Contains(remote_host, GITHUB)
        is_gitlab == Contains(remote_host, GITLAB)
        s4 == CASE profile.platform = Github /\ is_github -> s3 + 20
                [] profile.platform = Gitlab /\ is_gitlab -> s3 + 20
                [] profile.platform = Both /\ (is_github \/ is_gitlab) -> s3 + 15
                [] OTHER -> s3
    IN  IF /\ IsSome(profile.host)
           /\ \/ remote_host = Unwrap(profile.host)
              \/ Contains(remote_host, Unwrap(profile.host))
        THEN s4 + 80 ELSE s4

\* format_match_reason: which of the four messages, and the host it names
FormatMatchReason(remote_url, profile) ==
    LET host == remote_url.host
    IN  [host |-> host,
         kind |-> IF host = DefaultHost(profile) THEN "matches profile host"
                  ELSE IF Contains(host, GITHUB) /\ profile.platform \in {Github, Both}
                  THEN "GitHub repository detected"
                  ELSE IF Contains(host, GITLAB) /\ profile.platform \in {Gitlab, Both}
                  THEN "GitLab repository detected"
                  ELSE "matched"]

\* Replaces taking every scoring pair: the last one seen wins
ReplacesAlways(best_match, score) == TRUE

\* Replaces letting a pair with the score of the current best take its place
ReplacesOnTie(best_match, score) ==
    best_match = None \/ score >= Unwrap(best_match).score

\* the test of detect.rs line 34: does score replace the current best?
Replaces(best_match, score) == best_match = None \/ score > Unwrap(best_match).score

RECURSIVE ScoreProfiles(_, _, _, _)
\* the inner loop of detect_profile: every profile, in map iteration order
ScoreProfiles(best_match, remote_url, keys, config) ==
    IF keys = << >> THEN best_match
    ELSE LET name == Head(keys)
             profile == config.profiles[name]
             score == ScoreProfile(remote_url, name, profile)
             next == IF score > 0 /\ Replaces(best_match, score)
                     THEN Some([profile_name |-> name, score |-> score,
                                reason |-> FormatMatchReason(remote_url, profile)])
                     ELSE best_match
         IN  ScoreProfiles(next, remote_url, Tail(keys), config)

RECURSIVE ScanRemotes(_, _, _, _)
\* the outer loop of detect_profile; a remote is Option<url> (get_remote_url)
ScanRemotes(best_match, remotes, keys, config) ==
    IF remotes = << >> THEN best_match
    ELSE LET url_str == Head(remotes)
             parsed == IF IsSome(url_str) THEN RemoteUrlParse(Unwrap(url_str)) ELSE None
             next == IF IsSome(parsed)
                     THEN ScoreProfiles(best_match, Unwrap(parsed), keys, config)
                     ELSE best_match
         IN  ScanRemotes(next, Tail(remotes), keys, config)

\* detect_profile; keys is the order in which the profile map iterates
DetectProfile(config, remotes, keys) ==
    IF remotes = << >> THEN None
    ELSE ScanRemotes(None, remotes, keys, config)

\* ---------------------------------------------------------------- state

VARIABLES
    config,     \* the profile store as persisted in config.toml (Config)
    sshFile,    \* ~/.ssh/config: None when absent, else Some(content)
    repo,       \* the working directory: [is_repo, remotes]
    gitcfg,     \* the git configuration of the Local and the Global scope
    keyFiles,   \* the profile names whose ~/.ssh/id_ed25519_<name> ssh-keygen wrote
    cliAuth,    \* the logins made through gh and glab: [tool, hostname]
    last        \* what the last command did and returned

vars == <<config, sshFile, repo, gitcfg, keyFiles, cliAuth, last>>

\* Outcome of a command: err is "Ok" or the error it bailed with; synced
\* tells that it called sync_ssh_config, ret is what that call returned,
\* detected what detect_profile returned, current what get_current_profile
\* returned when it was called, unset whether `git config --unset
\* user.signingkey` exited with 0, having found a key to remove, fs the
\* filesystem as its sync found it.
Outcome(cmd, err) ==
    [cmd |-> cmd, err |-> err, synced |-> FALSE, ret |-> None, detected |-> None,
     current |-> None, unset |-> FALSE, fs |-> NoFault]

\* ---------------------------------------------------------------- inputs

\* the command line tools auth::authenticate logs in through
GH == "gh"
GLAB == "glab"

ProfileKeys == {<<"home">>, <<"work">>}
USER_NAME == <<"J D">>
EMAIL == <<"j@c.com">>
SSH_KEY == <<"~/.ssh/id_work">>
SSH_KEY_HOME == <<"~/.ssh/id_home">>

\* the options select_or_create_ssh_key adds to the keys it discovered
GENERATE_NEW == "+ Generate new SSH key"
ENTER_PATH == "+ Enter path manually"

\* `gitid add` with --ssh-key given
AddArgs(name, user_name, email, platform, ssh_key, gpg_key, host) ==
    [name |-> name, user_name |-> user_name, email |-> email, platform |-> platform,
     ssh_key |-> Some(ssh_key), gpg_key |-> gpg_key, host |-> host,
     selection |-> ENTER_PATH, path |-> ssh_key]

\* `gitid add` without --ssh-key: selection is the answer to the "SSH key:"
\* prompt, path the answer to the "SSH key path:" prompt that may follow
AddArgsPrompted(name, user_name, email, platform, selection, path) ==
    [name |-> name, user_name |-> user_name, email |-> email, platform |-> platform,
     ssh_key |-> None, gpg_key |-> None, host |-> None,
     selection |-> selection, path |-> path]

\* `gitid add` with few profiles: one per key, one unknown platform
FewAddArgs ==
    { AddArgs(<<"work">>, USER_NAME, EMAIL, "GITHUB", SSH_KEY, None, None),
      AddArgs(<<"home">>, USER_NAME, EMAIL, "both", SSH_KEY, None, None),
      AddArgs(<<"home">>, USER_NAME, EMAIL, "svn", SSH_KEY, None, None) }

\* `gitid add` with every platform, custom hosts, two keys, an empty name
ManyAddArgs ==
    { AddArgs(<<"work">>, USER_NAME, EMAIL, "github", SSH_KEY, None, None),
      AddArgs(<<"work">>, USER_NAME, EMAIL, "both", SSH_KEY, None, None),
      AddArgs(<<"work">>, USER_NAME, EMAIL, "both", SSH_KEY, None, Some(GITLAB_COM)),
      AddArgs(<<"home">>, USER_NAME, EMAIL, "GitLab", SSH_KEY_HOME, None, None),
      AddArgs(<<"home">>, USER_NAME, EMAIL, "gitlab", SSH_KEY_HOME, None, Some(GITLAB_COM)),
      AddArgs(<<"home">>, USER_NAME, EMAIL, "github", SSH_KEY_HOME, None,
              Some(GithubAlias(<<"work">>))),
      AddArgs(<<"home">>, << >>, EMAIL, "github", SSH_KEY_HOME, None, None),
      AddArgs(<<"home">>, USER_NAME, EMAIL, "github", SSH_KEY_HOME, None, None) }

\* `gitid add` under keys of which one reads like the other behind an alias
\* prefix ("git-" + "hub-work", "github-" + "work"), on every platform
HUB_WORK == <<"hub", "-", "work">>
AliasKeys == {<<"work">>, HUB_WORK}
AliasAddArgs ==
    { AddArgs(name, USER_NAME, EMAIL, platform, SSH_KEY, None, None) :
        name \in AliasKeys, platform \in {"github", "gitlab", "both"} }

\* `gitid add` with fields left empty or blank, with an unknown platform,
\* and with the SSH key chosen at the prompt
BLANK == <<" ">>
GPG_KEY == <<"ABCD1234">>
StoreAddArgs ==
    { AddArgs(<<"work">>, USER_NAME, EMAIL, "github", SSH_KEY, Some(GPG_KEY), None),
      AddArgs(<<"home">>, << >>, << >>, "gitlab", SSH_KEY_HOME, None, None),
      AddArgs(<<"home">>, USER_NAME, BLANK, "gitlab", << >>, None, None),
      AddArgs(<<"home">>, USER_NAME, EMAIL, "gitlab", BLANK, None, None),
      AddArgsPrompted(<<"home">>, USER_NAME, EMAIL, "Both", GENERATE_NEW, << >>),
      AddArgsPrompted(<<"home">>, USER_NAME, EMAIL, "svn", GENERATE_NEW, << >>),
      AddArgsPrompted(<<"home">>, BLANK, EMAIL, "both", GENERATE_NEW, << >>),
      AddArgsPrompted(<<"home">>, USER_NAME, EMAIL, "both", ENTER_PATH, << >>) }

\* What Config::load may read from config.toml: no file, or any document
\* with an optional default_profile and a table of profiles whose fields are
\* strings.
StoredProfile(name, gpg_key) == ProfileNew(name, EMAIL, Github, SSH_KEY, gpg_key, None)
LoadableConfigs ==
    { ConfigDefault,
      [default_profile |-> Some(<<"work">>),
       profiles |-> (<<"work">> :> StoredProfile(USER_NAME, Some(GPG_KEY)))],
      [default_profile |-> Some(<<"work">>),
       profiles |-> (<<"work">> :> StoredProfile(USER_NAME, None))
                        @@ (<<"home">> :> StoredProfile(USER_NAME, None))],
      [default_profile |-> Some(<<"work">>),
       profiles |-> (<<"home">> :> StoredProfile(USER_NAME, None))],
      [default_profile |-> None,
       profiles |-> (<<"work">> :> StoredProfile(BLANK, None))] }

\* `gitid add` of a signing profile, of one without a key, of one with the
\* first one's identity, and of one whose name ends with a blank
OTHER_NAME == <<"Jay">>
EMAIL_HOME == <<"jay@home.org">>
UseAddArgs ==
    { AddArgs(<<"work">>, USER_NAME, EMAIL, "github", SSH_KEY, Some(GPG_KEY), None),
      AddArgs(<<"home">>, OTHER_NAME, EMAIL_HOME, "both", SSH_KEY_HOME, None, None),
      AddArgs(<<"home">>, USER_NAME, EMAIL, "gitlab", SSH_KEY_HOME, None,
              Some(<<"git", "lab", ".corp">>)),
      AddArgs(<<"work">>, USER_NAME \o <<" ">>, EMAIL, "github", SSH_KEY, None, None) }

\* What a scope of the git configuration may hold before gitid runs:
\* nothing, a name alone, a signing identity written with a trailing blank.
OLD_KEY == <<"0LD0KEY">>
NameOnly == [GitUnset EXCEPT !["user.name"] = Some(USER_NAME)]
SignedIdentity ==
    [GitUnset EXCEPT !["user.name"] = Some(USER_NAME \o <<" ">>),
                     !["user.email"] = Some(EMAIL),
                     !["user.signingkey"] = Some(OLD_KEY),
                     !["commit.gpgsign"] = Some(<<"true">>)]
InitialGitConfigs == {GitUnset, NameOnly, SignedIdentity}
InRepo == [is_repo |-> TRUE, remotes |-> << >>]

\* Which of gh and glab is installed and logs in.
AuthWorks == { [t \in {GH, GLAB} |-> TRUE], [t \in {GH, GLAB} |-> t = GH] }
UNKNOWN_KEY == <<"nobody">>

\* Answers to the prompts of `gitid remove`: --force, or the confirmation.
RemoveArgs ==
    { [force |-> TRUE, confirmed |-> FALSE],
      [force |-> FALSE, confirmed |-> TRUE],
      [force |-> FALSE, confirmed |-> FALSE] }

\* Flags of `gitid detect` and answers to its prompts.
DetectArgs ==
    { [auto |-> TRUE, confirmed |-> FALSE, apply_manually |-> FALSE, pick |-> <<"work">>],
      [auto |-> FALSE, confirmed |-> TRUE, apply_manually |-> TRUE, pick |-> <<"home">>],
      [auto |-> FALSE, confirmed |-> FALSE, apply_manually |-> TRUE, pick |-> <<"work">>],
      [auto |-> FALSE, confirmed |-> FALSE, apply_manually |-> FALSE, pick |-> <<"home">>] }

RECURSIVE Flatten(_)
Flatten(pieces) ==
    IF pieces = << >> THEN << >> ELSE Head(pieces) \o Flatten(Tail(pieces))

\* What a user's ~/.ssh/config is made of: own text, newlines, sentinel lines.
Pieces == {<<"ServerAliveInterval 60">>, <<NL>>, MANAGED_START, MANAGED_END}

InitialSshFiles ==
    {None} \cup
    { Some(Flatten(ps)) : ps \in UNION { [1..n -> Pieces] : n \in 0..MaxPieces } }

\* Remote URLs as `git remote get-url` answers: no URL, a local path, SSH
\* URLs of a hosting site and of an SSH alias, an HTTPS URL with a port.
REPO_PATH == <<"org", "/", "repo.git">>
RemotePool ==
    { None,
      Some(<<"/", "srv", "/">> \o REPO_PATH),
      Some(GIT_AT \o GITHUB_COM \o <<":">> \o REPO_PATH),
      Some(GIT_AT \o GithubAlias(<<"work">>) \o <<":">> \o REPO_PATH),
      Some(HTTPS \o GITLAB_COM \o <<":", "8443", "/">> \o REPO_PATH) }

NotARepo == [is_repo |-> FALSE, remotes |-> << >>]
Repos ==
    {NotARepo} \cup
    { [is_repo |-> TRUE, remotes |-> rs] :
        rs \in UNION { [1..n -> RemotePool] : n \in 0..MaxRemotes } }

\* What `git remote get-url` may print: user names, hosts, separators,
\* schemes and a path, put together in any order.
ALICE_AT == <<"alice", "@">>
UrlPieces ==
    { GIT_AT, ALICE_AT, HTTPS, HTTP, GITHUB_COM, GithubAlias(<<"work">>),
      <<":">>, <<"/">>, <<"repo.git">> }
Urls == { Flatten(ps) : ps \in UNION { [1..n -> UrlPieces] : n \in 1..MaxUrlPieces } }
OneRemoteRepos == { [is_repo |-> TRUE, remotes |-> <<Some(url)>>] : url \in Urls }

\* ------------------------------------------------------------- commands

Occurrences(s, pat) == Cardinality({ i \in 0..Len(s) : StartsWithAt(s, pat, i) })

\* A specification follows the syncs of ~/.ssh/config while the file written
\* holds at most MaxSentinels start sentinels (every sync that lets the file
\* grow adds one), or at most MaxSentinels occurrences of each sentinel.
StartsBounded(content) == Occurrences(content, MANAGED_START) <= MaxSentinels
Modelled(content) ==
    /\ StartsBounded(content)
    /\ Occurrences(content, MANAGED_END) <= MaxSentinels

\* SshKey::path_display of the key generate_key writes for a profile name
KeyPath(name) == <<"~/.ssh/id_ed25519_">> \o name

\* select_or_create_ssh_key: [err, ssh_key, generated]; generate_key bails
\* when the private key file already exists, else ssh-keygen writes it
SelectOrCreateSshKey(profile_name, selection, path) ==
    IF selection = GENERATE_NEW
    THEN IF profile_name \in keyFiles
         THEN [err |-> "KeyExists", ssh_key |-> << >>, generated |-> FALSE]
         ELSE [err |-> "Ok", ssh_key |-> KeyPath(profile_name), generated |-> TRUE]
    ELSE [err |-> "Ok", ssh_key |-> path, generated |-> FALSE]

\* cmd_add: the name is looked up, the platform parsed, the SSH key chosen or
\* generated, and only then the profile validated, added and saved
CmdAdd(a) ==
    LET platform == PlatformFromStr(a.platform)
        early == IF HasProfile(config, a.name) THEN "AlreadyExists"
                 ELSE IF platform = None THEN "InvalidPlatform"
                 ELSE "Ok"
        key == IF IsSome(a.ssh_key)
               THEN [err |-> "Ok", ssh_key |-> Unwrap(a.ssh_key), generated |-> FALSE]
               ELSE SelectOrCreateSshKey(a.name, a.selection, a.path)
        profile == ProfileNew(a.user_name, a.email, Unwrap(platform),
                              key.ssh_key, a.gpg_key, a.host)
        added == AddProfile(config, a.name, profile)
        err == IF early # "Ok" THEN early
               ELSE IF key.err # "Ok" THEN key.err
               ELSE added.err
    IN  /\ config' = IF err = "Ok" THEN added.config ELSE config
        /\ keyFiles' = IF early = "Ok" /\ key.generated
                       THEN keyFiles \cup {a.name} ELSE keyFiles
        /\ last' = Outcome("add", err)
        /\ UNCHANGED <<sshFile, repo, gitcfg, cliAuth>>

\* cmd_remove cleaning the SSH configuration before it looks the name up
CmdRemoveSyncsFirst(name, force, confirmed, clean_ssh, fs) ==
    LET err == IF DOMAIN config.profiles = {} THEN "NoProfiles"
               ELSE IF ~HasProfile(config, name) THEN "NotFound"
               ELSE "Ok"
        cancelled == ~force /\ ~confirmed
        removed == IF err = "Ok" /\ ~cancelled THEN RemoveProfile(config, name) ELSE config
    IN  IF ~clean_ssh
        THEN /\ config' = removed
             /\ last' = Outcome("remove", err)
             /\ UNCHANGED <<sshFile, repo, gitcfg, keyFiles, cliAuth>>
        ELSE \E keys \in KeyOrders(removed.profiles) :
                \E sync \in SyncFile(sshFile, removed, keys, fs) :
                    /\ config' = removed
                    /\ sshFile' = sync.file
                    /\ last' = [Outcome("remove", IF err = "Ok" THEN sync.err ELSE err)
                                   EXCEPT !.synced = TRUE, !.ret = sync.ret, !.fs = fs]
                    /\ UNCHANGED <<repo, gitcfg, keyFiles, cliAuth>>

\* cmd_remove; confirmed is the answer to the prompt asked without --force,
\* fs the filesystem its sync finds
CmdRemove(name, force, confirmed, clean_ssh, fs) ==
    LET err == IF DOMAIN config.profiles = {} THEN "NoProfiles"
               ELSE IF ~HasProfile(config, name) THEN "NotFound"
               ELSE "Ok"
        cancelled == ~force /\ ~confirmed
        removed == RemoveProfile(config, name)
    IN  IF err # "Ok" \/ cancelled
        THEN /\ last' = Outcome("remove", err)
             /\ UNCHANGED <<config, sshFile, repo, gitcfg, keyFiles, cliAuth>>
        ELSE IF ~clean_ssh
        THEN /\ config' = removed
             /\ last' = Outcome("remove", "Ok")
             /\ UNCHANGED <<sshFile, repo, gitcfg, keyFiles, cliAuth>>
        ELSE \E keys \in KeyOrders(removed.profiles) :
                \E sync \in SyncFile(sshFile, removed, keys, fs) :
                    /\ config' = removed
                    /\ sshFile' = sync.file
                    /\ last' = [Outcome("remove", sync.err) EXCEPT
                                   !.synced = TRUE, !.ret = sync.ret, !.fs = fs]
                    /\ UNCHANGED <<repo, gitcfg, keyFiles, cliAuth>>

\* cmd_ssh_sync; fs is the filesystem its sync finds
CmdSshSync(fs) ==
    IF DOMAIN config.profiles = {}
    THEN /\ last' = Outcome("ssh-sync", "Ok")
         /\ UNCHANGED <<config, sshFile, repo, gitcfg, keyFiles, cliAuth>>
    ELSE \E keys \in KeyOrders(config.profiles) :
            \E sync \in SyncFile(sshFile, config, keys, fs) :
                /\ sshFile' = sync.file
                /\ last' = [Outcome("ssh-sync", sync.err) EXCEPT
                               !.synced = TRUE, !.ret = sync.ret, !.fs = fs]
                /\ UNCHANGED <<config, repo, gitcfg, keyFiles, cliAuth>>

\* does the `git config --unset user.signingkey` of apply_profile find a key?
UnsetFinds(cfg, profile) == profile.gpg_key = None /\ IsSome(cfg["user.signingkey"])

\* git::apply_profile with ConfigScope::Local, as cmd_detect calls it
ApplyLocally(profile) ==
    [gitcfg EXCEPT ![Local] = ApplyProfile(@, profile.name, profile.email, profile.gpg_key)]

\* cmd_detect; confirmed, apply_manually and pick are the answers to its prompts
CmdDetect(auto, confirmed, apply_manually, pick) ==
    IF ~repo.is_repo
    THEN /\ last' = Outcome("detect", "NotInRepo")
         /\ UNCHANGED <<config, sshFile, repo, gitcfg, keyFiles, cliAuth>>
    ELSE \E keys \in KeyOrders(config.profiles) :
         \E result \in {DetectProfile(config, repo.remotes, keys)} :
            LET chosen ==
                    IF IsSome(result)
                    THEN IF auto \/ confirmed
                         THEN GetProfile(config, Unwrap(result).profile_name)
                         ELSE None
                    ELSE IF DOMAIN config.profiles # {} /\ apply_manually
                         THEN GetProfile(config, pick)
                         ELSE None
            IN  /\ gitcfg' = IF IsSome(chosen) THEN ApplyLocally(Unwrap(chosen)) ELSE gitcfg
                /\ last' = [Outcome("detect",
                                    IF IsSome(chosen)
                                    THEN ApplyProfileResult(gitcfg[Local],
                                                            Unwrap(chosen).gpg_key)
                                    ELSE "Ok") EXCEPT
                               !.detected = result,
                               !.unset = /\ IsSome(chosen)
                                         /\ UnsetFinds(gitcfg[Local], Unwrap(chosen))]
                /\ UNCHANGED <<config, sshFile, repo, keyFiles, cliAuth>>

\* what git config reads in a scope: --local fails outside a repository
ScopeConfig(scope) ==
    IF scope = Local /\ ~repo.is_repo THEN GitUnset ELSE gitcfg[scope]

\* the first profile, in the order the map yields them, whose name and
\* email are the identity's
RECURSIVE FirstMatch(_, _, _)
FirstMatch(keys, name, email) ==
    IF keys = << >> THEN None
    ELSE LET profile == config.profiles[Head(keys)]
         IN  IF profile.name = name /\ profile.email = email
             THEN Some(Head(keys))
             ELSE FirstMatch(Tail(keys), name, email)

\* get_current_profile taking from the global scope each value the local
\* scope lacks
GetCurrentProfilePerField(keys) ==
    LET local == GetCurrentUser(ScopeConfig(Local))
        global == GetCurrentUser(ScopeConfig(Global))
        user == <<IF local[1] = None THEN global[1] ELSE local[1],
                  IF local[2] = None THEN global[2] ELSE local[2]>>
    IN  IF IsSome(user[1]) /\ IsSome(user[2])
        THEN FirstMatch(keys, Unwrap(user[1]), Unwrap(user[2]))
        ELSE None

\* get_current_profile
GetCurrentProfile(keys) ==
    LET local == GetCurrentUser(ScopeConfig(Local))
        user == IF local[1] = None /\ local[2] = None
                THEN GetCurrentUser(ScopeConfig(Global))
                ELSE local
    IN  IF IsSome(user[1]) /\ IsSome(user[2])
        THEN FirstMatch(keys, Unwrap(user[1]), Unwrap(user[2]))
        ELSE None

\* cmd_current: output_porcelain, or output_human, which asks nothing
\* outside a repository
CmdCurrent(porcelain) ==
    /\ \E keys \in KeyOrders(config.profiles) :
          last' = IF porcelain \/ repo.is_repo
                  THEN [Outcome("current", "Ok") EXCEPT
                           !.current = Some(GetCurrentProfile(keys))]
                  ELSE Outcome("current", "Ok")
    /\ UNCHANGED <<config, sshFile, repo, gitcfg, keyFiles, cliAuth>>

\* cmd_use
CmdUse(name, global) ==
    LET scope == IF global THEN Global ELSE Local
        err == IF DOMAIN config.profiles = {} THEN "NoProfiles"
               ELSE IF ~HasProfile(config, name) THEN "NotFound"
               ELSE IF ~global /\ ~repo.is_repo THEN "NotInRepo"
               ELSE "Ok"
        profile == Unwrap(GetProfile(config, name))
    IN  IF err # "Ok"
        THEN /\ last' = Outcome("use", err)
             /\ UNCHANGED <<config, sshFile, repo, gitcfg, keyFiles, cliAuth>>
        ELSE /\ gitcfg' = [gitcfg EXCEPT ![scope] =
                              ApplyProfile(@, profile.name, profile.email, profile.gpg_key)]
             /\ last' = [Outcome("use", ApplyProfileResult(gitcfg[scope],
                                                            profile.gpg_key)) EXCEPT
                            !.unset = UnsetFinds(gitcfg[scope], profile)]
             /\ UNCHANGED <<config, sshFile, repo, keyFiles, cliAuth>>

\* github::authenticate and gitlab::authenticate: the --hostname given to
\* `gh auth login` or `glab auth login`, the tool's own site when none is
LoginHost(tool, host) ==
    LET own == IF tool = GH THEN GITHUB_COM ELSE GITLAB_COM
    IN  IF IsSome(host) /\ Unwrap(host) # own THEN Unwrap(host) ELSE own

\* auth::authenticate: the tools a platform logs in to, in order
AuthTools(platform) ==
    CASE platform = Github -> <<GH>>
      [] platform = Gitlab -> <<GLAB>>
      [] platform = Both -> <<GH, GLAB>>

\* cmd_auth; works tells which of the tools is installed and logs in
CmdAuth(name, works) ==
    LET err == IF DOMAIN config.profiles = {} THEN "NoProfiles"
               ELSE IF ~HasProfile(config, name) THEN "NotFound"
               ELSE "Ok"
        profile == Unwrap(GetProfile(config, name))
        tools == AuthTools(profile.platform)
        \* the tools run before the first that fails
        ran == { i \in 1..Len(tools) : \A j \in 1..i : works[tools[j]] }
    IN  IF err # "Ok"
        THEN /\ last' = Outcome("auth", err)
             /\ UNCHANGED <<config, sshFile, repo, gitcfg, keyFiles, cliAuth>>
        ELSE /\ cliAuth' = cliAuth \cup
                    { [tool |-> tools[i], hostname |-> LoginHost(tools[i], profile.host)] :
                        i \in ran }
             /\ last' = Outcome("auth", IF Cardinality(ran) = Len(tools)
                                        THEN "Ok" ELSE "AuthFailed")
             /\ UNCHANGED <<config, sshFile, repo, gitcfg, keyFiles>>

\* -------------------------------------------------------- specifications

InitCommon ==
    /\ config = ConfigDefault
    /\ gitcfg = [Local |-> GitUnset, Global |-> GitUnset]
    /\ keyFiles = {}
    /\ cliAuth = {}
    /\ last = Outcome("init", "Ok")

\* The store and the SSH synchroniser, from any ~/.ssh/config.
InitSync ==
    /\ InitCommon
    /\ sshFile \in InitialSshFiles
    /\ repo = NotARepo

NextSync ==
    \/ \E a \in FewAddArgs : CmdAdd(a)
    \/ \E name \in ProfileKeys, r \in RemoveArgs, clean_ssh \in BOOLEAN :
          /\ CmdRemove(name, r.force, r.confirmed, clean_ssh, NoFault)
          /\ last'.synced => Modelled(ReadSshConfig(sshFile'))
    \/ /\ CmdSshSync(NoFault)
       /\ last'.synced => Modelled(ReadSshConfig(sshFile'))

SpecSync == InitSync /\ [][NextSync]_vars

\* The store and the SSH synchroniser with many profiles, from no ~/.ssh/config.
InitRender ==
    /\ InitCommon
    /\ sshFile = None
    /\ repo = NotARepo

NextRender ==
    \/ \E a \in ManyAddArgs : CmdAdd(a)
    \/ \E name \in ProfileKeys, r \in RemoveArgs, clean_ssh \in BOOLEAN :
          CmdRemove(name, r.force, r.confirmed, clean_ssh, NoFault)
    \/ CmdSshSync(NoFault)

SpecRender == InitRender /\ [][NextRender]_vars

\* The store and detection, in any repository.
InitDetect ==
    /\ InitCommon
    /\ sshFile = None
    /\ repo \in Repos

NextDetect ==
    \/ \E a \in ManyAddArgs : CmdAdd(a)
    \/ \E name \in ProfileKeys, r \in RemoveArgs :
          CmdRemove(name, r.force, r.confirmed, FALSE, NoFault)
    \/ \E d \in DetectArgs :
          CmdDetect(d.auto, d.confirmed, d.apply_manually, d.pick)

SpecDetect == InitDetect /\ [][NextDetect]_vars

\* Detection in a repository whose one remote has any URL.
InitParse ==
    /\ InitCommon
    /\ sshFile = None
    /\ repo \in OneRemoteRepos

NextParse ==
    \/ CmdAdd(AddArgs(<<"work">>, USER_NAME, EMAIL, "github", SSH_KEY, None, None))
    \/ \E confirmed \in BOOLEAN : CmdDetect(FALSE, confirmed, FALSE, <<"work">>)

SpecParse == InitParse /\ [][NextParse]_vars

\* The store as loaded from any config.toml, and the commands that change it.
InitStore ==
    /\ config \in LoadableConfigs
    /\ gitcfg = [Local |-> GitUnset, Global |-> GitUnset]
    /\ keyFiles = {}
    /\ cliAuth = {}
    /\ last = Outcome("init", "Ok")
    /\ sshFile = None
    /\ repo = NotARepo

NextStore ==
    \/ \E a \in StoreAddArgs : CmdAdd(a)
    \/ \E name \in ProfileKeys, r \in RemoveArgs :
          CmdRemove(name, r.force, r.confirmed, FALSE, NoFault)

SpecStore == InitStore /\ [][NextStore]_vars

\* Switching and showing identities, from any git configuration.
InitUse ==
    /\ config = ConfigDefault
    /\ repo \in {NotARepo, InRepo}
    /\ gitcfg \in [{Local, Global} -> InitialGitConfigs]
    /\ ~repo.is_repo => gitcfg[Local] = GitUnset
    /\ keyFiles = {}
    /\ cliAuth = {}
    /\ last = Outcome("init", "Ok")
    /\ sshFile = None

NextUse ==
    \/ \E a \in UseAddArgs : CmdAdd(a)
    \/ \E name \in ProfileKeys, r \in RemoveArgs :
          CmdRemove(name, r.force, r.confirmed, FALSE, NoFault)
    \/ \E name \in ProfileKeys, global \in BOOLEAN : CmdUse(name, global)
    \/ \E porcelain \in BOOLEAN : CmdCurrent(porcelain)

SpecUse == InitUse /\ [][NextUse]_vars

\* The commands that take a profile name, with names the store may not hold.
InitLookup ==
    /\ config = ConfigDefault
    /\ repo = InRepo
    /\ gitcfg = [s \in {Local, Global} |-> IF s = Global THEN SignedIdentity ELSE GitUnset]
    /\ keyFiles = {}
    /\ cliAuth = {}
    /\ last = Outcome("init", "Ok")
    /\ sshFile \in {None, Some(<<"ServerAliveInterval 60", NL>>)}

NextLookup ==
    \/ \E a \in { u \in UseAddArgs : u.host = None } : CmdAdd(a)
    \/ \E name \in ProfileKeys \cup {UNKNOWN_KEY}, clean_ssh \in BOOLEAN :
          CmdRemove(name, TRUE, FALSE, clean_ssh, NoFault)
    \/ \E name \in ProfileKeys \cup {UNKNOWN_KEY}, global \in BOOLEAN : CmdUse(name, global)
    \/ \E name \in ProfileKeys \cup {UNKNOWN_KEY}, works \in AuthWorks : CmdAuth(name, works)

SpecLookup == InitLookup /\ [][NextLookup]_vars

\* Removing with --clean-ssh and synchronising, from no ~/.ssh/config, from
\* the user's own text and from a file that holds a stray end sentinel line.
InitClean ==
    /\ InitCommon
    /\ sshFile \in {None, Some(<<"ServerAliveInterval 60", NL>>),
                    Some(MANAGED_END \o <<NL>>)}
    /\ repo = NotARepo

NextClean ==
    \/ \E a \in FewAddArgs : CmdAdd(a)
    \/ \E name \in ProfileKeys, r \in RemoveArgs :
          /\ CmdRemove(name, r.force, r.confirmed, TRUE, NoFault)
          /\ last'.synced => StartsBounded(ReadSshConfig(sshFile'))
    \/ /\ CmdSshSync(NoFault)
       /\ last'.synced => StartsBounded(ReadSshConfig(sshFile'))

SpecClean == InitClean /\ [][NextClean]_vars

\* The store and the SSH synchroniser with keys that resemble aliases.
NextAlias ==
    \/ \E a \in AliasAddArgs : CmdAdd(a)
    \/ \E name \in AliasKeys, clean_ssh \in BOOLEAN :
          CmdRemove(name, TRUE, FALSE, clean_ssh, NoFault)
    \/ CmdSshSync(NoFault)

SpecAlias == InitRender /\ [][NextAlias]_vars

\* Synchronising on a filesystem that may fail: ~/.ssh is missing only
\* while the file is absent.
InitFaults ==
    /\ InitCommon
    /\ sshFile \in {None, Some(<<"ServerAliveInterval 60", NL>>)}
    /\ repo = NotARepo

NextFaults ==
    \/ \E a \in FewAddArgs : CmdAdd(a)
    \/ \E name \in ProfileKeys, fs \in { f \in Faults : f.dir \/ sshFile = None } :
          CmdRemove(name, TRUE, FALSE, TRUE, fs)
    \/ \E fs \in { f \in Faults : f.dir \/ sshFile = None } : CmdSshSync(fs)

SpecFaults == InitFaults /\ [][NextFaults]_vars

\* The whole program.
Init ==
    /\ InitCommon
    /\ sshFile \in InitialSshFiles
    /\ repo \in Repos

Next ==
    \/ \E a \in ManyAddArgs : CmdAdd(a)
    \/ \E name \in ProfileKeys, r \in RemoveArgs, clean_ssh \in BOOLEAN :
          \E fs \in { f \in Faults : f.dir \/ sshFile = None } :
              /\ CmdRemove(name, r.force, r.confirmed, clean_ssh, fs)
              /\ last'.synced => Modelled(ReadSshConfig(sshFile'))
    \/ \E fs \in { f \in Faults : f.dir \/ sshFile = None } :
          /\ CmdSshSync(fs)
          /\ last'.synced => Modelled(ReadSshConfig(sshFile'))
    \/ \E d \in DetectArgs :
          CmdDetect(d.auto, d.confirmed, d.apply_manually, d.pick)
    \/ \E name \in ProfileKeys, global \in BOOLEAN : CmdUse(name, global)
    \/ \E name \in ProfileKeys, works \in AuthWorks : CmdAuth(name, works)
    \/ \E porcelain \in BOOLEAN : CmdCurrent(porcelain)

Spec == Init /\ [][Next]_vars

\* ================================================================ claims

\* What the claims speak of.
EndsWith(s, pat) == Len(pat) <= Len(s) /\ StartsWithAt(s, pat, Len(s) - Len(pat))
HasSentinel(content, sentinel) ==
    \E i \in 0..Len(content) : StartsWithAt(content, sentinel, i)
HasBothSentinels(content) ==
    HasSentinel(content, MANAGED_START) /\ HasSentinel(content, MANAGED_END)
\* the blocks generate_managed_block may return for the store
Blocks(store) == { GenerateManagedBlock(store, keys) : keys \in KeyOrders(store.profiles) }
\* this step calls sync_ssh_config (on the old file, with the new store)
SyncStep == last'.synced
OldContent == ReadSshConfig(sshFile)
NewContent == ReadSshConfig(sshFile')
OWN_TEXT == <<"ServerAliveInterval 60">>

\* C1: two consecutive syncs with an unchanged store: the second leaves the
\* file as the first wrote it.
C1_SyncIdempotent ==
    [][(last.synced /\ SyncStep /\ config' = config) => sshFile' = sshFile]_vars

\* C2: with both sentinels in the file, sync writes the bytes before the
\* start sentinel, the new block and the bytes after the end sentinel, where
\* the replaced region runs from a start sentinel through an end sentinel:
\* the bytes outside it are kept once each, in place.
C2_OutsideBytesPreserved ==
    [][(SyncStep /\ HasBothSentinels(OldContent)) =>
        \E i, j \in 0..Len(OldContent), block \in Blocks(config') :
            /\ StartsWithAt(OldContent, MANAGED_START, i)
            /\ i + Len(MANAGED_START) <= j - Len(MANAGED_END)
            /\ StartsWithAt(OldContent, MANAGED_END, j - Len(MANAGED_END))
            /\ NewContent = SliceTo(OldContent, i) \o block \o SliceFrom(OldContent, j)]_vars

\* C3: without a sentinel pair the block is appended: new = old + pad + block
\* + newline, where pad is empty for an empty (or absent) file and else the
\* shortest run of inserted newlines whose last one is a blank line.
C3_Pad(old) ==
    IF old = << >> THEN << >>
    ELSE IF EndsWith(old \o <<NL>>, <<NL, NL>>) THEN <<NL>>
    ELSE <<NL, NL>>
C3_AppendKeepsContent ==
    [][(SyncStep /\ ~HasBothSentinels(OldContent)) =>
        \E block \in Blocks(config') :
            NewContent = OldContent \o C3_Pad(OldContent) \o block \o <<NL>>]_vars
\* a block was appended to a file whose last line had no newline
C3_Witness ==
    /\ last.synced
    /\ Unwrap(last.ret)[2] = FALSE
    /\ StartsWith(ReadSshConfig(sshFile), OWN_TEXT \o <<NL, NL>> \o MANAGED_START)

\* C6: sync returns (number of profiles of the store, whether both sentinels
\* were in the file it read).
C6_SyncReturn ==
    [][SyncStep =>
        last'.ret = Some(<<Cardinality(DOMAIN config'.profiles),
                           HasBothSentinels(OldContent)>>)]_vars
\* one Both profile, three stanzas, a replaced block: (1, true)
C6_Witness ==
    /\ last.synced
    /\ last.ret = Some(<<1, TRUE>>)
    /\ \E n \in DOMAIN config.profiles : config.profiles[n].platform = Both
    /\ Occurrences(ReadSshConfig(sshFile), <<"Host ">>) = 3

\* the Host lines of a text, and the alias a Host line names
HostLines(s) == { i \in 1..Len(s) : s[i] = "Host " }
AliasAt(s, i) ==
    LET j == CHOOSE j \in (i + 1)..Len(s) :
                s[j] = NL /\ \A k \in (i + 1)..(j - 1) : s[k] # NL
    IN  SubSeq(s, i + 1, j - 1)
\* the aliases of the Host lines rendered for a profile
RenderedAliases(name, profile) ==
    LET e == GenerateHostEntry(name, profile)
    IN  { AliasAt(e, i) : i \in HostLines(e) }

\* C7: after a successful `gitid ssh-sync` a file that holds Host stanzas
\* holds the block generated from the current store, and every Host line in
\* it is rendered for a profile of the current store.
C7_BlockRegenerated ==
    (last.cmd = "ssh-sync" /\ last.err = "Ok") =>
        LET content == ReadSshConfig(sshFile)
        IN  HostLines(content) # {} =>
                /\ \E block \in Blocks(config) : Contains(content, block)
                /\ \A i \in HostLines(content) :
                      \E n \in DOMAIN config.profiles :
                          AliasAt(content, i) \in RenderedAliases(n, config.profiles[n])

\* C4: the block is the start sentinel line, the stanzas of the profiles in
\* ascending order of their keys, the end sentinel, whatever order the map
\* yields its keys in.
AscendingKeys(store) ==
    CHOOSE o \in KeyOrders(store.profiles) :
        \A i, j \in 1..Len(o) : i < j => StrLess(o[i], o[j])
RECURSIVE C4_Stanzas(_, _)
C4_Stanzas(store, names) ==
    IF names = << >> THEN << >>
    ELSE GenerateHostEntry(Head(names), store.profiles[Head(names)])
            \o C4_Stanzas(store, Tail(names))
C4_BlockDeterministic ==
    \A keys \in KeyOrders(config.profiles) :
        GenerateManagedBlock(config, keys) =
            MANAGED_START \o <<NL>> \o C4_Stanzas(config, AscendingKeys(config)) \o MANAGED_END
\* a synced store of two profiles: the map may yield its keys in two orders
C4_Witness ==
    /\ last.synced
    /\ Cardinality(KeyOrders(config.profiles)) = 2
    /\ \E block \in Blocks(config) : ReadSshConfig(sshFile) = block \o <<NL>>

\* C5: a profile renders as one stanza naming its alias, its default host
\* and its key; a Both profile as three: git-<name> at its default host,
\* github-<name> at github.com, gitlab-<name> at gitlab.com, the same key in
\* each.  After a sync the file holds them.
C5_Stanza(alias, hostname, ssh_key) ==
    <<"Host ">> \o alias \o <<NL>>
        \o <<"  HostName ">> \o hostname \o <<NL>>
        \o <<"  User git", NL>>
        \o <<"  IdentityFile ">> \o ssh_key \o <<NL>>
        \o <<"  IdentitiesOnly yes", NL>>
C5_Expected(name, profile) ==
    LET own == C5_Stanza(SshHostAlias(profile, name), DefaultHost(profile), profile.ssh_key)
    IN  IF profile.platform = Both
        THEN own \o <<NL>> \o C5_Stanza(<<"git", "hub", "-">> \o name, GITHUB_COM, profile.ssh_key)
                 \o <<NL>> \o C5_Stanza(<<"git", "lab", "-">> \o name, GITLAB_COM, profile.ssh_key)
        ELSE own
C5_StanzasRendered ==
    \A name \in DOMAIN config.profiles :
        LET profile == config.profiles[name]
            entry == GenerateHostEntry(name, profile)
        IN  /\ entry = C5_Expected(name, profile)
            /\ Cardinality(HostLines(entry)) = IF profile.platform = Both THEN 3 ELSE 1
            /\ last.synced => Contains(ReadSshConfig(sshFile), entry)
\* a synced Both profile with a custom host, beside a profile with another key
C5_Witness ==
    /\ last.synced
    /\ \E n \in DOMAIN config.profiles :
          config.profiles[n].platform = Both /\ IsSome(config.profiles[n].host)
    /\ \E n, m \in DOMAIN config.profiles :
          config.profiles[n].ssh_key # config.profiles[m].ssh_key

\* the hosts of the remotes whose URL resolves and parses
RemoteHosts ==
    { Unwrap(RemoteUrlParse(Unwrap(repo.remotes[i]))) :
        i \in { k \in 1..Len(repo.remotes) :
                  /\ IsSome(repo.remotes[k])
                  /\ IsSome(RemoteUrlParse(Unwrap(repo.remotes[k]))) } }
Scores ==
    { ScoreProfile(h, n, config.profiles[n]) : h \in RemoteHosts, n \in DOMAIN config.profiles }
Detected == last.cmd = "detect" /\ last.err = "Ok"

\* C8: detect_profile returns None exactly when there is no remote or no
\* pair of a parsed remote and a profile scores above 0; else it returns the
\* greatest score of all pairs, with a profile that attains it.
C8_DetectBest ==
    Detected =>
        /\ last.detected = None <=> (repo.remotes = << >> \/ \A s \in Scores : s = 0)
        /\ last.detected # None =>
              LET d == Unwrap(last.detected)
              IN  /\ \A s \in Scores : s <= d.score
                  /\ d.profile_name \in DOMAIN config.profiles
                  /\ \E h \in RemoteHosts :
                        ScoreProfile(h, d.profile_name, config.profiles[d.profile_name])
                            = d.score
\* the best pair is not the last one scored: a later pair scores less, above 0
C8_Witness ==
    /\ Detected
    /\ last.detected # None
    /\ Len(repo.remotes) = 2
    /\ \E n \in DOMAIN config.profiles :
          LET h == Unwrap(RemoteUrlParse(Unwrap(repo.remotes[2])))
              s == ScoreProfile(h, n, config.profiles[n])
          IN  /\ IsSome(repo.remotes[2])
              /\ IsSome(RemoteUrlParse(Unwrap(repo.remotes[2])))
              /\ 0 < s /\ s < Unwrap(last.detected).score

\* C9: the score is the sum of the rules that match.
C9_If(cond, points) == IF cond THEN points ELSE 0
C9_RuleSum(host, name, profile) ==
    LET prefix == CASE profile.platform = Github -> <<"git", "hub", "-">>
                    [] profile.platform = Gitlab -> <<"git", "lab", "-">>
                    [] profile.platform = Both -> <<"git", "-">>
        effective == IF profile.host # None THEN Unwrap(profile.host)
                     ELSE IF profile.platform = Gitlab THEN GITLAB_COM ELSE GITHUB_COM
        github == Contains(host, GITHUB)
        gitlab == Contains(host, GITLAB)
    IN  C9_If(host = prefix \o name, 100)
        + C9_If(profile.platform = Both
                  /\ host \in {<<"git", "hub", "-">> \o name, <<"git", "lab", "-">> \o name}, 100)
        + C9_If(host = effective, 50)
        + C9_If(profile.platform = Github /\ github, 20)
        + C9_If(profile.platform = Gitlab /\ gitlab, 20)
        + C9_If(profile.platform = Both /\ (github \/ gitlab), 15)
        + C9_If(profile.host # None /\ Contains(host, Unwrap(profile.host)), 80)
C9_ScoreAdditive ==
    \A h \in RemoteHosts, n \in DOMAIN config.profiles :
        LET profile == config.profiles[n]
            score == ScoreProfile(h, n, profile)
        IN  /\ score = C9_RuleSum(h.host, n, profile)
            /\ (profile.platform = Github /\ h.host = GITHUB \o <<"-">> \o n) => score >= 100
            /\ (profile.platform = Github /\ h.host = GITHUB_COM) => score > 0
\* detection scored a pair that three rules match: host, platform, custom host
C9_Witness ==
    /\ Detected
    /\ \E h \in RemoteHosts, n \in DOMAIN config.profiles :
          ScoreProfile(h, n, config.profiles[n]) = 150

\* C10: when the only remote is git@<alias>:path for an alias rendered for a
\* profile of the store, detection returns that profile with a score of at
\* least 100.
C10_AliasRemoteDetected ==
    \A n \in DOMAIN config.profiles :
        \A alias \in RenderedAliases(n, config.profiles[n]) :
            (Detected /\ repo.remotes = <<Some(GIT_AT \o alias \o <<":">> \o REPO_PATH)>>) =>
                /\ last.detected # None
                /\ Unwrap(last.detected).profile_name = n
                /\ Unwrap(last.detected).score >= 100

\* the URLs of the repository's remotes
RemoteUrls ==
    { Unwrap(repo.remotes[i]) : i \in { k \in 1..Len(repo.remotes) : IsSome(repo.remotes[k]) } }
HasScheme(url) == StartsWith(url, <<"http", "s", "://">>) \/ StartsWith(url, <<"http", "://">>)

\* C11: an SSH-form URL user@host:path parses, for any user name, to the
\* host between the '@' and the first ':' after it; without a ':' after the
\* '@', and without any '@', the result is None.
C11_UserNames == {<<"git">>, <<"alice">>}
C11_SshFormParsed ==
    \A url \in RemoteUrls :
        /\ \A user \in C11_UserNames :
              StartsWith(url, user \o <<"@">>) =>
                  LET rest == SliceFrom(url, Len(user) + 1)
                      colon == Find(rest, <<":">>)
                  IN  RemoteUrlParse(url) =
                          IF colon = None THEN None
                          ELSE Some([host |-> SliceTo(rest, Unwrap(colon))])
        /\ (~Contains(url, <<"@">>) /\ ~HasScheme(url)) => RemoteUrlParse(url) = None

\* C12: an http:// or https:// URL parses to the host between the scheme
\* and the first '/', or to all that follows the scheme when there is no
\* '/'; a URL with neither the git@ prefix nor a scheme parses to None, and
\* detection skips it without an error.
C12_Host(rest) ==
    IF Contains(rest, <<"/">>) THEN SliceTo(rest, Unwrap(Find(rest, <<"/">>))) ELSE rest
C12_HttpFormParsed ==
    /\ \A url \in RemoteUrls :
          /\ StartsWith(url, <<"http", "s", "://">>) =>
                RemoteUrlParse(url) = Some([host |-> C12_Host(SliceFrom(url, 3))])
          /\ StartsWith(url, <<"http", "://">>) =>
                RemoteUrlParse(url) = Some([host |-> C12_Host(SliceFrom(url, 2))])
          /\ (~StartsWith(url, <<"git", "@">>) /\ ~HasScheme(url)) =>
                RemoteUrlParse(url) = None
    /\ (last.cmd = "detect" /\ repo.is_repo) =>
          /\ last.err = "Ok"
          /\ (\A url \in RemoteUrls : RemoteUrlParse(url) = None) => last.detected = None
\* detection matched an http(s) URL by its host, with or without a path
C12_Witness ==
    /\ last.cmd = "detect"
    /\ repo.remotes \in
          { <<Some(<<"http", "s", "://", "git", "hub", ".com", ":">>)>>,
            <<Some(<<"http", "://", "git", "hub", ".com", "/", "repo.git">>)>> }
    /\ last.detected # None

\* C13: default_host is the custom host whenever one is set, whatever the
\* platform; without one it is github.com for GitHub, gitlab.com for GitLab
\* and github.com for Both.
C13_DefaultHost ==
    \A n \in DOMAIN config.profiles :
        LET profile == config.profiles[n]
        IN  DefaultHost(profile) =
                IF profile.host # None THEN Unwrap(profile.host)
                ELSE CASE profile.platform = "Github" -> <<"git", "hub", ".com">>
                       [] profile.platform = "Gitlab" -> <<"git", "lab", ".com">>
                       [] profile.platform = "Both" -> <<"git", "hub", ".com">>
\* the store holds a Both profile whose custom host is gitlab.com and a
\* GitLab profile without one, and the file was synced with their HostName
C13_Witness ==
    /\ last.synced
    /\ \E n, m \in DOMAIN config.profiles :
          /\ config.profiles[n].platform = "Gitlab" /\ config.profiles[n].host = None
          /\ config.profiles[m].platform = "Both" /\ config.profiles[m].host # None
    /\ Contains(ReadSshConfig(sshFile),
                <<"Host ", "git", "-", "work", NL, "  HostName ", "git", "lab", ".com", NL>>)

\* C14: ssh_host_alias is the platform's prefix (github, gitlab, git for
\* Both), '-', and the profile name; no other field of the profile changes it.
C14_OtherFields ==
    { [name |-> << >>, email |-> <<"x@y.org">>, platform |-> "Github",
       ssh_key |-> <<"~/.ssh/other">>,
       gpg_key |-> Some(<<"ABCD1234">>), host |-> h] :
          h \in {None, Some(<<"git", "lab", ".com">>), Some(<<"git", "hub", "-", "work">>)} }
C14_SshHostAlias ==
    \A n \in DOMAIN config.profiles, name \in ProfileKeys :
        LET profile == config.profiles[n]
            expected == CASE profile.platform = "Github" -> <<"git", "hub", "-">> \o name
                          [] profile.platform = "Gitlab" -> <<"git", "lab", "-">> \o name
                          [] profile.platform = "Both" -> <<"git", "-">> \o name
        IN  /\ SshHostAlias(profile, name) = expected
            /\ \A o \in C14_OtherFields :
                  SshHostAlias([o EXCEPT !.platform = profile.platform], name) = expected
\* a GitHub profile with a custom host was synced under the alias github-home
C14_Witness ==
    /\ last.synced
    /\ \E n \in DOMAIN config.profiles :
          config.profiles[n].platform = "Github" /\ config.profiles[n].host # None
    /\ Contains(ReadSshConfig(sshFile), <<"Host ", "git", "hub", "-", "home", NL>>)

\* a command saved the store it had loaded and changed
Saved == config' # config

\* C15: every store a command saves has default_profile unset or naming a
\* key of profiles, whatever config.toml the command loaded.
C15_DefaultNamesProfile ==
    [][Saved =>
          \/ config'.default_profile = None
          \/ Unwrap(config'.default_profile) \in DOMAIN config'.profiles]_vars
\* C15, the removal: removing the default's key unsets default_profile,
\* removing another key leaves it and all other profiles as they were.
C15_RemoveClearsDefault ==
    [][\A name \in ProfileKeys :
          (last'.cmd = "remove" /\ name \in DOMAIN config.profiles
              /\ name \notin DOMAIN config'.profiles) =>
                /\ config'.default_profile =
                      IF config.default_profile = Some(name) THEN None
                      ELSE config.default_profile
                /\ \A other \in DOMAIN config.profiles \ {name} :
                      /\ other \in DOMAIN config'.profiles
                      /\ config'.profiles[other] = config.profiles[other]]_vars

\* C16: every profile of a store a command saves has name, email and
\* ssh_key that are not blank, whatever config.toml the command loaded.
C16_NotBlank(s) == \E i \in 1..Len(s) : s[i] \notin {" ", "\t", "\n"}
C16_ProfilesValid ==
    [][Saved =>
          \A n \in DOMAIN config'.profiles :
              /\ C16_NotBlank(config'.profiles[n].name)
              /\ C16_NotBlank(config'.profiles[n].email)
              /\ C16_NotBlank(config'.profiles[n].ssh_key)]_vars

\* C19: an add that fails on the platform string or on an empty field leaves
\* the store, the key files and everything else as they were.
ConfigurationErrors == {"InvalidPlatform", "EmptyName", "EmptyEmail", "EmptySshKey"}
C19_FailedAddMutatesNothing ==
    [][(last'.cmd = "add" /\ last'.err \in ConfigurationErrors) =>
          UNCHANGED <<config, sshFile, repo, gitcfg, keyFiles, cliAuth>>]_vars

\* C17: get_current_profile takes the identity of the local scope, and that
\* of the global scope only when the local scope holds neither a name nor an
\* email; it returns a profile only if its name and email are the
\* identity's, and None when the identity lacks one of the two or no
\* profile has them.
C17_Identity ==
    LET local == GetCurrentUser(ScopeConfig("Local"))
    IN  IF local = <<None, None>> THEN GetCurrentUser(ScopeConfig("Global")) ELSE local
C17_Matches ==
    IF C17_Identity[1] = None \/ C17_Identity[2] = None THEN {}
    ELSE { n \in DOMAIN config.profiles :
             /\ config.profiles[n].name = Unwrap(C17_Identity[1])
             /\ config.profiles[n].email = Unwrap(C17_Identity[2]) }
C17_CurrentProfile ==
    last.current # None =>
        LET result == Unwrap(last.current)
        IN  /\ result = None <=> C17_Matches = {}
            /\ result # None => Unwrap(result) \in C17_Matches
\* the local scope wins: it holds the identity of home, the global scope
\* that of work, and home is returned
C17_Witness ==
    /\ last.current = Some(Some(<<"home">>))
    /\ gitcfg["Local"]["user.name"] = Some(<<"Jay">>)
    /\ gitcfg["Global"]["user.email"] = Some(<<"j@c.com">>)
    /\ <<"work">> \in DOMAIN config.profiles

\* C18: a successful `gitid use` leaves in its scope exactly the profile's
\* settings: its name and email, and its GPG key with commit.gpgsign true,
\* or, when it has no key, neither of the two; the other scope is untouched.
C18_Settings(profile) ==
    [k \in GitKeys |->
        CASE k = "user.name" -> Some(profile.name)
          [] k = "user.email" -> Some(profile.email)
          [] k = "user.signingkey" -> profile.gpg_key
          [] k = "commit.gpgsign" -> IF profile.gpg_key # None THEN Some(<<"true">>) ELSE None]
C18_ScopeReflectsLast ==
    [][\A name \in ProfileKeys, global \in BOOLEAN :
          (name \in DOMAIN config.profiles /\ last'.cmd = "use" /\ last'.err = "Ok"
              /\ CmdUse(name, global)) =>
                LET scope == IF global THEN "Global" ELSE "Local"
                    other == IF global THEN "Local" ELSE "Global"
                IN  /\ gitcfg'[scope] = C18_Settings(config.profiles[name])
                    /\ gitcfg'[other] = gitcfg[other]]_vars
\* a switch to a profile without a key found a signing key in the scope and
\* removed it
C18_Witness ==
    /\ last.cmd = "use" /\ last.err = "Ok" /\ last.unset
    /\ \E scope \in {"Local", "Global"} :
          /\ gitcfg[scope]["user.name"] = Some(<<"Jay">>)
          /\ gitcfg[scope]["user.signingkey"] = None
          /\ gitcfg[scope]["commit.gpgsign"] = None

\* C20: use, remove and auth with a name that is no key of the store return
\* an error and change nothing: not the store, not the git configuration of
\* either scope, not the SSH configuration, nor anything else.
C20_NotFoundMutatesNothing ==
    [][\A name \in ProfileKeys \cup {UNKNOWN_KEY} :
          (/\ name \notin DOMAIN config.profiles
           /\ \/ \E global \in BOOLEAN : CmdUse(name, global)
              \/ \E clean_ssh \in BOOLEAN : CmdRemove(name, TRUE, FALSE, clean_ssh, NoFault)
              \/ \E works \in AuthWorks : CmdAuth(name, works)) =>
                /\ last'.err \in {"NotFound", "NoProfiles"}
                /\ UNCHANGED <<config, sshFile, repo, gitcfg, keyFiles, cliAuth>>]_vars
\* a name was not found while the store, the SSH configuration and the
\* logins all held something to lose
C20_Witness ==
    /\ last.cmd \in {"use", "remove", "auth"}
    /\ last.err = "NotFound"
    /\ DOMAIN config.profiles # {}
    /\ sshFile # None /\ Contains(ReadSshConfig(sshFile), MANAGED_START)
    /\ cliAuth # {}
    /\ gitcfg["Local"] # GitUnset

\* C21: `use` of a profile without a GPG key, in a scope where neither
\* user.signingkey nor commit.gpgsign is set, succeeds: it returns Ok, the
\* scope holds the profile's name and email and still no signing setting.
C21_UnsetAbsentSucceeds ==
    [][\A name \in ProfileKeys, global \in BOOLEAN :
          LET scope == IF global THEN Global ELSE Local
          IN  ( /\ CmdUse(name, global)
                /\ HasProfile(config, name)
                /\ global \/ repo.is_repo
                /\ config.profiles[name].gpg_key = None
                /\ gitcfg[scope]["user.signingkey"] = None
                /\ gitcfg[scope]["commit.gpgsign"] = None )
              => /\ last'.err = "Ok"
                 /\ gitcfg'[scope] =
                       [gitcfg[scope] EXCEPT
                           !["user.name"] = Some(config.profiles[name].name),
                           !["user.email"] = Some(config.profiles[name].email)]]_vars

\* the keyless profile home was applied to the local scope of a repository
\* whose --unset found no key, the global scope holding nothing
C21_Witness ==
    /\ last.cmd = "use" /\ last.err = "Ok" /\ ~last.unset
    /\ gitcfg[Global] = GitUnset
    /\ gitcfg[Local] = [GitUnset EXCEPT !["user.name"] = Some(OTHER_NAME),
                                        !["user.email"] = Some(EMAIL_HOME)]

\* the offsets of the sentinels of a text, and whether the Host line at
\* fragment i lies in a managed block: the nearest sentinel before it is a
\* start sentinel and the nearest one after it an end sentinel
C22_Sentinels(content, from, to) ==
    { a \in from..to : \/ StartsWithAt(content, MANAGED_START, a)
                       \/ StartsWithAt(content, MANAGED_END, a) }
C22_InBlock(content, i) ==
    LET before == C22_Sentinels(content, 0, i - 1)
        after == C22_Sentinels(content, i, Len(content))
    IN  /\ before # {} /\ after # {}
        /\ \E a \in before : /\ \A b \in before : b <= a
                              /\ StartsWithAt(content, MANAGED_START, a)
        /\ \E a \in after : /\ \A b \in after : a <= b
                             /\ StartsWithAt(content, MANAGED_END, a)

\* C22: after a successful `remove P --clean-ssh` no Host line inside a
\* managed block of ~/.ssh/config names an alias of P, and the file holds
\* the stanzas of every profile that remains.
C22_CleanSshRemovesEntry ==
    [][(last'.cmd = "remove" /\ last'.err = "Ok" /\ last'.synced) =>
        /\ \A n \in DOMAIN config.profiles \ DOMAIN config'.profiles :
              \A i \in HostLines(NewContent) :
                 C22_InBlock(NewContent, i) =>
                    AliasAt(NewContent, i) \notin RenderedAliases(n, config.profiles[n])
        /\ \A n \in DOMAIN config'.profiles :
              Contains(NewContent, GenerateHostEntry(n, config'.profiles[n]))]_vars

\* the pairs detect_profile scores, by the index of the remote and of the
\* key in iteration order, and the order it scores them in
C23_Parsed(i) ==
    IsSome(repo.remotes[i]) /\ IsSome(RemoteUrlParse(Unwrap(repo.remotes[i])))
C23_Url(i) == Unwrap(RemoteUrlParse(Unwrap(repo.remotes[i])))
C23_Score(keys, i, j) == ScoreProfile(C23_Url(i), keys[j], config.profiles[keys[j]])
C23_Before(i2, j2, i, j) == i2 < i \/ (i2 = i /\ j2 < j)

\* C23: whatever order the map yields the profiles in, detect_profile
\* returns the first pair, remotes in listing order and then profiles in
\* that order, that attains the greatest score: every pair scored before it
\* scores strictly less, no pair scores more.
C23_FirstMaximumKept ==
    Detected =>
        /\ last.detected \in { DetectProfile(config, repo.remotes, keys) :
                                  keys \in KeyOrders(config.profiles) }
        /\ \A keys \in KeyOrders(config.profiles) :
              LET best == DetectProfile(config, repo.remotes, keys)
                  I == { i \in 1..Len(repo.remotes) : C23_Parsed(i) }
                  J == 1..Len(keys)
              IN  IsSome(best) =>
                    \E i \in I, j \in J :
                       /\ Unwrap(best) =
                             [profile_name |-> keys[j],
                              score |-> C23_Score(keys, i, j),
                              reason |-> FormatMatchReason(C23_Url(i),
                                                           config.profiles[keys[j]])]
                       /\ \A i2 \in I, j2 \in J :
                             /\ C23_Score(keys, i2, j2) <= C23_Score(keys, i, j)
                             /\ C23_Before(i2, j2, i, j) =>
                                   C23_Score(keys, i2, j2) < C23_Score(keys, i, j)
\* two profiles attain the greatest score on the same remote, and detection
\* returned one of them
C23_Witness ==
    /\ Detected
    /\ last.detected # None
    /\ \E h \in RemoteHosts, n, m \in DOMAIN config.profiles :
          /\ n # m
          /\ Unwrap(last.detected).profile_name = n
          /\ ScoreProfile(h, n, config.profiles[n]) = Unwrap(last.detected).score
          /\ ScoreProfile(h, m, config.profiles[m]) = Unwrap(last.detected).score

\* the remote host is an alias rendered for the profile: its ssh_host_alias
\* or, for a Both profile, its github- or gitlab- alias
C24_AliasMatch(host, n) ==
    \/ host = SshHostAlias(config.profiles[n], n)
    \/ /\ config.profiles[n].platform = Both
       /\ host \in {GithubAlias(n), GitlabAlias(n)}

\* C24: on a remote host that is an alias of some profile, no profile without
\* an alias match scores higher than a profile with one, and detection in a
\* repository with that one remote returns a profile with an alias match.
C24_AliasMatchHighest ==
    \A h \in RemoteHosts, n \in DOMAIN config.profiles :
        C24_AliasMatch(h.host, n) =>
            /\ \A m \in DOMAIN config.profiles :
                  ~C24_AliasMatch(h.host, m) =>
                      ScoreProfile(h, m, config.profiles[m])
                          <= ScoreProfile(h, n, config.profiles[n])
            /\ (Detected /\ Len(repo.remotes) = 1) =>
                  /\ last.detected # None
                  /\ C24_AliasMatch(h.host, Unwrap(last.detected).profile_name)

\* the contents a sync of this step may write, complete
C25_Complete ==
    { Some(SyncSshConfig(OldContent, config', keys).content) :
        keys \in KeyOrders(config'.profiles) }

\* C25: whatever happens to a sync, a failed or interrupted write included,
\* ~/.ssh/config afterwards holds the complete previous content or the
\* complete new content.
C25_AtomicReplace ==
    [][SyncStep => (sshFile' = sshFile \/ sshFile' \in C25_Complete)]_vars

\* C26: a sync whose read fails returns a filesystem error and leaves the
\* file as it was; one whose write fails returns a filesystem error; with
\* ~/.ssh missing it succeeds and the file is written; an absent file is
\* read as the empty string, so that the file written is the block alone.
C26_FailureModes ==
    [][SyncStep =>
        LET fs == last'.fs
            read_fails == IsSome(sshFile) /\ ~fs.readable
            write_fails == ~fs.writable \/ IsSome(fs.written)
        IN  /\ read_fails => (last'.err = "ReadFailed" /\ sshFile' = sshFile)
            /\ (~read_fails /\ write_fails) => last'.err = "WriteFailed"
            /\ (~read_fails /\ ~write_fails) =>
                  (last'.err = "Ok" /\ sshFile' \in C25_Complete)
            /\ (sshFile = None /\ ~write_fails) =>
                  \E block \in Blocks(config') : sshFile' = Some(block \o <<NL>>)]_vars
\* a sync that found neither ~/.ssh nor the file succeeded and wrote the file
C26_Witness ==
    /\ last.synced /\ last.err = "Ok"
    /\ ~last.fs.dir
    /\ DOMAIN config.profiles # {}
    /\ \E block \in Blocks(config) : sshFile = Some(block \o <<NL>>)
\* a sync of a file it could not read returned the error; the file is the
\* user's own text still
C26_ReadFailedWitness ==
    /\ last.synced /\ last.err = "ReadFailed"
    /\ sshFile = Some(<<"ServerAliveInterval 60", NL>>)

\* the aliases of all the Host lines rendered for the profiles of the store
C27_Aliases ==
    UNION { RenderedAliases(n, config.profiles[n]) : n \in DOMAIN config.profiles }

\* C27: in the managed block generated from the store no two Host lines
\* carry the same alias, and on a remote host that is one of these aliases
\* exactly one profile has an alias match; a file just synced shows it.
C27_AliasesUnique ==
    /\ \A keys \in KeyOrders(config.profiles) :
          LET block == GenerateManagedBlock(config, keys)
          IN  \A i, j \in HostLines(block) :
                 i # j => AliasAt(block, i) # AliasAt(block, j)
    /\ \A h \in C27_Aliases :
          Cardinality({ n \in DOMAIN config.profiles : C24_AliasMatch(h, n) }) = 1
    /\ (last.synced /\ last.err = "Ok") =>
          \A i, j \in HostLines(ReadSshConfig(sshFile)) :
             i # j => AliasAt(ReadSshConfig(sshFile), i) # AliasAt(ReadSshConfig(sshFile), j)
\* a synced store of the Both profile hub-work and the GitHub profile work:
\* the file holds git-hub-work next to github-work
C27_Witness ==
    /\ last.synced /\ last.err = "Ok"
    /\ DOMAIN config.profiles = AliasKeys
    /\ config.profiles[HUB_WORK].platform = Both
    /\ config.profiles[<<"work">>].platform = Github
    /\ Cardinality(HostLines(ReadSshConfig(sshFile))) = 4
    /\ { <<"git", "-", "hub", "-", "work">>, <<"git", "hub", "-", "work">> }
          \subseteq { AliasAt(ReadSshConfig(sshFile), i) :
                         i \in HostLines(ReadSshConfig(sshFile)) }

\* C28: after a successful `use P` in the local scope of a repository,
\* get_current_profile returns a profile with the name and email of P,
\* whatever order the map yields the profiles in, and P itself when no other
\* profile has them.
C28_UseRoundTrip ==
    [][\A name \in ProfileKeys :
          (CmdUse(name, FALSE) /\ last'.err = "Ok") =>
              \A keys \in KeyOrders(config.profiles) :
                 LET P == config.profiles[name]
                     result == GetCurrentProfile(keys)'
                 IN  /\ result # None
                     /\ config.profiles[Unwrap(result)].name = P.name
                     /\ config.profiles[Unwrap(result)].email = P.email
                     /\ (\A m \in DOMAIN config.profiles \ {name} :
                            config.profiles[m].name # P.name
                               \/ config.profiles[m].email # P.email)
                           => result = Some(name)]_vars

====
